---- MODULE Spec2Model ----
(***************************************************************************)
(* Step Detection API: the REST / WebSocket handlers of                    *)
(* src/step_detection/api/api.py driving the step event state machine and  *)
(* the step counter (core/detector.py), and the threshold calibrator       *)
(* optimize_thresholds of src/step_detection/models/model_utils.py.        *)
(*                                                                         *)
(* Probabilities and thresholds are counted in hundredths (0.3 is 30), so  *)
(* that every comparison of the program is an exact integer comparison.    *)
(* Timestamps are left out: no property below reads them.                  *)
(***************************************************************************)
EXTENDS Integers, Sequences, FiniteSets, TLC

\* Python's None.
None == [none |-> TRUE]

\* Readings processed per session (the length the session log may reach).
MaxReadings == 3

\* StepDetector's thresholds, in hundredths (0.3 / 0.3).
default_start_threshold == 30
default_end_threshold == 30

\* What the classifier may answer for a reading: <<p_start, p_end>> in
\* hundredths (p_none is the rest): neither qualifies, start only, end only,
\* both above their thresholds, both exactly on their thresholds.
Predictions ==
    { [start_prob |-> 2,  end_prob |-> 3],
      [start_prob |-> 90, end_prob |-> 0],
      [start_prob |-> 0,  end_prob |-> 90],
      [start_prob |-> 45, end_prob |-> 45],
      [start_prob |-> 30, end_prob |-> 30] }

VARIABLES
    started,      \* startup_event has run (the server accepts requests)
    detector,     \* global detector: None or the StepDetector's state
    counter,      \* global counter: None or the SimpleStepCounter's state
    model_info,   \* global model_info: "empty" ({}) or "loaded"
    ws,           \* the WebSocket connection: "closed" or "open"
    response,     \* the reply the last request or message was answered with
    history,      \* observer: the readings processed since the last reset
    last_reset,   \* observer: the detector as the last performed reset found it
    conn,         \* a WebSocket connection followed from await to await
    cal_args,     \* optimize_thresholds' arguments
    cal           \* optimize_thresholds' locals and where it stands

api_vars == <<started, detector, counter, model_info, ws, response, history, last_reset,
              conn>>
cal_vars == <<cal_args, cal>>
vars == <<started, detector, counter, model_info, ws, response, history, last_reset,
          conn, cal_args, cal>>

----------------------------------------------------------------------------
(* core/detector.py: the step event state machine and the session manager. *)

\* StepDetector(model_path): phase IDLE, nothing counted, an empty session.
StepDetector ==
    [ in_step         |-> FALSE,
      step_count      |-> 0,
      session         |-> << >>,
      last_detection  |-> None,
      start_threshold |-> default_start_threshold,
      end_threshold   |-> default_end_threshold ]

\* SimpleStepCounter(model_path).
SimpleStepCounter == [ step_count |-> 0, last_detection |-> None ]

\* Mutant of process: a probability equal to its threshold qualifies.
process_nonstrict(d, pred) ==
    IF ~d.in_step
    THEN IF pred.start_prob >= d.start_threshold
         THEN [in_step |-> TRUE,  step_start |-> TRUE,  step_end |-> FALSE, completed |-> FALSE]
         ELSE [in_step |-> FALSE, step_start |-> FALSE, step_end |-> FALSE, completed |-> FALSE]
    ELSE IF pred.end_prob >= d.end_threshold
         THEN [in_step |-> FALSE, step_start |-> FALSE, step_end |-> TRUE,  completed |-> TRUE]
         ELSE [in_step |-> TRUE,  step_start |-> FALSE, step_end |-> FALSE, completed |-> FALSE]

\* The state machine's process(prediction): one transition at most, chosen by
\* the phase; thresholds are strict.
process(d, pred) ==
    IF ~d.in_step
    THEN IF pred.start_prob > d.start_threshold
         THEN [in_step |-> TRUE,  step_start |-> TRUE,  step_end |-> FALSE, completed |-> FALSE]
         ELSE [in_step |-> FALSE, step_start |-> FALSE, step_end |-> FALSE, completed |-> FALSE]
    ELSE IF pred.end_prob > d.end_threshold
         THEN [in_step |-> FALSE, step_start |-> FALSE, step_end |-> TRUE,  completed |-> TRUE]
         ELSE [in_step |-> TRUE,  step_start |-> FALSE, step_end |-> FALSE, completed |-> FALSE]

\* The session manager's record(event): counts a completed step, then appends
\* the event, with the count as it now is, to the log and keeps it as the
\* last detection.
record(d, ev, pred) ==
    LET count  == IF ev.completed THEN d.step_count + 1 ELSE d.step_count
        result == [ step_start  |-> ev.step_start,
                    step_end    |-> ev.step_end,
                    predictions |-> pred,
                    step_count  |-> count ]
    IN  [ detector |-> [d EXCEPT !.in_step = ev.in_step,
                                 !.step_count = count,
                                 !.session = Append(@, result),
                                 !.last_detection = result],
          result   |-> result ]

\* StepDetector.process_reading: classify, process, record; the result dict.
process_reading(d, pred) == record(d, process(d, pred), pred)

\* StepDetector.reset(): phase IDLE, count 0, session cleared, thresholds kept.
detector_reset(d) ==
    [d EXCEPT !.in_step = FALSE, !.step_count = 0,
              !.session = << >>, !.last_detection = None]

\* SimpleStepCounter.reset().
counter_reset(c) == [c EXCEPT !.step_count = 0, !.last_detection = None]

\* SimpleStepCounter.get_count().
get_count(c) == c.step_count

\* StepDetector.get_session_summary(): the session manager's summary(), a
\* read of the count, the log's length and the phase.
detector_get_session_summary(d) ==
    [ total_steps   |-> d.step_count,
      event_count   |-> Len(d.session),
      current_phase |-> IF d.in_step THEN "in_step" ELSE "idle" ]

\* StepDetector.save_session(filename): the session manager's save(). It
\* writes the log and the summary, or raises when the destination cannot be
\* written; the session is left as it was either way.
detector_save_session(d, writable) ==
    [ detector |-> d,
      raised   |-> ~writable,
      written  |-> IF writable THEN [list |-> d.session] ELSE None ]

----------------------------------------------------------------------------
(* api.py *)

\* The private reference of a streaming client: the phase and count of a state
\* machine fed with that client's readings alone, and the event it last gave.
OwnSession == [in_step |-> FALSE, step_count |-> 0,
               step_start |-> FALSE, step_end |-> FALSE]

\* No WebSocket connection.
NoConnection ==
    [ pc       |-> "closed",
      received |-> 0,
      sent     |-> 0,
      rejected |-> FALSE,
      msg      |-> "none",
      invoked  |-> FALSE,
      reply    |-> None,
      own      |-> OwnSession ]

\* The module's globals before startup.
ApiInit ==
    /\ started = FALSE
    /\ detector = None
    /\ counter = None
    /\ model_info = "empty"
    /\ ws = "closed"
    /\ response = [op |-> "none", status |-> 0]
    /\ history = << >>
    /\ last_reset = None
    /\ conn = NoConnection

\* No calibration is running.
CalIdle ==
    /\ cal_args = None
    /\ cal = [pc |-> "idle"]

Init == ApiInit /\ CalIdle

\* Mutant of startup_event: the counter is constructed before the detector.
startup_event_counter_first ==
    /\ ~started
    /\ started' = TRUE
    /\ \E outcome \in {"no_model_file", "counter_raises", "detector_raises",
                       "metadata_raises", "loaded"} :
          /\ counter' = IF outcome \in {"no_model_file", "counter_raises"}
                        THEN None ELSE SimpleStepCounter
          /\ detector' = IF outcome \in {"metadata_raises", "loaded"}
                         THEN StepDetector ELSE None
          /\ model_info' = IF outcome = "loaded" THEN "loaded" ELSE "empty"
    /\ UNCHANGED <<ws, response, history, last_reset, cal_vars, conn>>

\* startup_event: the model file may be missing; each constructor and the
\* metadata load may raise, which leaves what was assigned before it.
startup_event ==
    /\ ~started
    /\ started' = TRUE
    /\ \E outcome \in {"no_model_file", "detector_raises", "counter_raises",
                       "metadata_raises", "loaded"} :
          /\ detector' = IF outcome \in {"no_model_file", "detector_raises"}
                         THEN None ELSE StepDetector
          /\ counter' = IF outcome \in {"metadata_raises", "loaded"}
                        THEN SimpleStepCounter ELSE None
          /\ model_info' = IF outcome = "loaded" THEN "loaded" ELSE "empty"
    /\ UNCHANGED <<ws, response, history, last_reset, cal_vars, conn>>

\* What the observer keeps of a processed reading: the prediction, the phase
\* and count it met, the reply's flags and count, and the detector's phase and
\* count after it.
Observed(d, pred, reply, d2) ==
    [ pred           |-> pred,
      in_step_before |-> d.in_step,
      count_before   |-> d.step_count,
      step_start     |-> reply.step_start,
      step_end       |-> reply.step_end,
      step_count     |-> reply.step_count,
      in_step_after  |-> d2.in_step,
      count_after    |-> d2.step_count ]

\* A session takes MaxReadings readings at most.
MayRead ==
    /\ Len(history) < MaxReadings
    /\ detector # None => Len(detector.session) < MaxReadings

\* Mutants of StepDetectionResponse: step_end filled from the result's
\* step_start; the two flags exchanged; the count read from the global counter
\* instead of the result.
StepDetectionResponse_dup(result) ==
    [ op                |-> "detect_step",
      status            |-> 200,
      step_start        |-> result.step_start,
      step_end          |-> result.step_start,
      start_probability |-> result.predictions.start_prob,
      end_probability   |-> result.predictions.end_prob,
      step_count        |-> result.step_count ]

StepDetectionResponse_swapped(result) ==
    [ op                |-> "detect_step",
      status            |-> 200,
      step_start        |-> result.step_end,
      step_end          |-> result.step_start,
      start_probability |-> result.predictions.start_prob,
      end_probability   |-> result.predictions.end_prob,
      step_count        |-> result.step_count ]

StepDetectionResponse_counter(result) ==
    [ op                |-> "detect_step",
      status            |-> 200,
      step_start        |-> result.step_start,
      step_end          |-> result.step_end,
      start_probability |-> result.predictions.start_prob,
      end_probability   |-> result.predictions.end_prob,
      step_count        |-> IF counter # None THEN counter.step_count ELSE 0 ]

\* detect_step's StepDetectionResponse(...), lines 122-129.
StepDetectionResponse(result) ==
    [ op                |-> "detect_step",
      status            |-> 200,
      step_start        |-> result.step_start,
      step_end          |-> result.step_end,
      start_probability |-> result.predictions.start_prob,
      end_probability   |-> result.predictions.end_prob,
      step_count        |-> result.step_count ]

\* POST /detect_step: a body that is no SensorReading (a field lacking or no
\* number) is refused with 422 before the handler runs; 503 without a
\* detector; 500 when process_reading raises (the classifier fails before the
\* state machine is reached); else the result.
detect_step ==
    /\ started
    /\ MayRead
    /\ \/ /\ response' = [op |-> "detect_step", status |-> 422]
          /\ UNCHANGED <<detector, history>>
       \/ /\ detector = None
          /\ response' = [op |-> "detect_step", status |-> 503]
          /\ UNCHANGED <<detector, history>>
       \/ /\ detector # None
          /\ response' = [op |-> "detect_step", status |-> 500]
          /\ UNCHANGED <<detector, history>>
       \/ /\ detector # None
          /\ \E pred \in Predictions :
                LET r == process_reading(detector, pred) IN
                /\ detector' = r.detector
                /\ response' = StepDetectionResponse(r.result)
                /\ history' = Append(history,
                                 Observed(detector, pred, response', detector'))
    /\ UNCHANGED <<started, counter, model_info, ws, last_reset, cal_vars, conn>>

\* GET /step_count
get_step_count ==
    /\ started
    /\ response' = IF counter = None
                   THEN [op |-> "step_count", status |-> 503]
                   ELSE [op |-> "step_count", status |-> 200,
                         step_count |-> get_count(counter),
                         last_detection |-> counter.last_detection]
    /\ UNCHANGED <<started, detector, counter, model_info, ws, history, last_reset,
                   cal_vars, conn>>

\* Mutant of reset_count_globals: the reset does not reach the detector.
reset_count_globals_no_cascade(c, d) ==
    [ counter  |-> counter_reset(c),
      detector |-> d ]

\* Mutant of reset_count_globals: the reset also sets the detector's thresholds
\* to the calibrator's fallback 0.03.
reset_count_globals_rethreshold(c, d) ==
    [ counter  |-> counter_reset(c),
      detector |-> IF d # None
                   THEN [detector_reset(d) EXCEPT !.start_threshold = 3,
                                                  !.end_threshold = 3]
                   ELSE d ]

\* reset_step_count's lines 151-153 on the two globals: the counter is reset,
\* and the detector with it when there is one.
reset_count_globals(c, d) ==
    [ counter  |-> counter_reset(c),
      detector |-> IF d # None THEN detector_reset(d) ELSE d ]

\* What the observer keeps of a performed reset: the detector's phase and
\* count as the first reset of a run of resets found them, and whether the
\* run holds a second one.
ResetObserved ==
    IF response.op = "reset_count" /\ response.status = 200 /\ last_reset # None
    THEN [last_reset EXCEPT !.twice = TRUE]
    ELSE IF detector # None
    THEN [in_step |-> detector.in_step, step_count |-> detector.step_count,
          twice |-> FALSE]
    ELSE None

\* POST /reset_count
reset_step_count ==
    /\ started
    /\ IF counter = None
       THEN /\ response' = [op |-> "reset_count", status |-> 503]
            /\ UNCHANGED <<detector, counter, history, last_reset>>
       ELSE LET g == reset_count_globals(counter, detector) IN
            /\ counter' = g.counter
            /\ detector' = g.detector
            /\ response' = [op |-> "reset_count", status |-> 200, step_count |-> 0]
            /\ history' = << >>
            /\ last_reset' = ResetObserved
    /\ UNCHANGED <<started, model_info, ws, cal_vars, conn>>

\* GET /session_summary
get_session_summary ==
    /\ started
    /\ response' = IF detector = None
                   THEN [op |-> "session_summary", status |-> 503]
                   ELSE [op |-> "session_summary", status |-> 200,
                         summary |-> detector_get_session_summary(detector)]
    /\ UNCHANGED <<started, detector, counter, model_info, ws, history, last_reset,
                   cal_vars, conn>>

\* Mutant of save_session: a save that raises is answered like one that
\* succeeds.
save_session_swallows ==
    /\ started
    /\ \/ /\ detector = None
          /\ response' = [op |-> "save_session", status |-> 503]
          /\ UNCHANGED detector
       \/ /\ detector # None
          /\ \E writable \in BOOLEAN :
                LET r == detector_save_session(detector, writable) IN
                /\ detector' = r.detector
                /\ response' = [op |-> "save_session",
                                status |-> 200,
                                writable |-> writable,
                                written |-> r.written]
    /\ UNCHANGED <<started, counter, model_info, ws, history, last_reset, cal_vars, conn>>

\* POST /save_session: 503 without a detector; the destination can be written
\* or not; a save that raises is answered 500 "Save error".
save_session ==
    /\ started
    /\ \/ /\ detector = None
          /\ response' = [op |-> "save_session", status |-> 503]
          /\ UNCHANGED detector
       \/ /\ detector # None
          /\ \E writable \in BOOLEAN :
                LET r == detector_save_session(detector, writable) IN
                /\ detector' = r.detector
                /\ response' = [op |-> "save_session",
                                status |-> IF r.raised THEN 500 ELSE 200,
                                writable |-> writable,
                                written |-> r.written]
    /\ UNCHANGED <<started, counter, model_info, ws, history, last_reset, cal_vars, conn>>

\* GET /model_info
get_model_info ==
    /\ started
    /\ response' =
          IF model_info = "empty"
          THEN [op |-> "model_info", status |-> 200,
                message |-> "Model info not available"]
          ELSE [op |-> "model_info", status |-> 200,
                api_status |-> IF detector # None THEN "active" ELSE "model_not_loaded",
                thresholds |-> IF detector # None
                               THEN [start_threshold |-> detector.start_threshold,
                                     end_threshold   |-> detector.end_threshold]
                               ELSE None]
    /\ UNCHANGED <<started, detector, counter, model_info, ws, history, last_reset,
                   cal_vars, conn>>

\* The reply of lines 265-273 to a reading received on the WebSocket.
WebSocketResponse(result) ==
    [ op                |-> "ws_reading",
      status            |-> 200,
      ws_status         |-> "success",
      step_start        |-> result.step_start,
      step_end          |-> result.step_end,
      start_probability |-> result.predictions.start_prob,
      end_probability   |-> result.predictions.end_prob,
      step_count        |-> result.step_count ]

\* An error record sent on the WebSocket.
WebSocketError(error) ==
    [ op |-> "ws_reading", status |-> 0, ws_status |-> "error", error |-> error ]

\* websocket_endpoint, lines 203-210: accept; without a detector, an error
\* message and close.
websocket_accept ==
    /\ started
    /\ ws = "closed"
    /\ IF detector = None
       THEN /\ response' = [op |-> "ws_accept", status |-> 0, ws_status |-> "error",
                            error |-> "Model not loaded"]
            /\ ws' = "closed"
       ELSE /\ response' = [op |-> "ws_accept", status |-> 0, ws_status |-> "open"]
            /\ ws' = "open"
    /\ UNCHANGED <<started, detector, counter, model_info, history, last_reset,
                   cal_vars, conn>>

\* websocket_endpoint, lines 213-286: one turn of the loop, from the message
\* received to the reply sent. The message is not JSON, is JSON that is no
\* object (the field test raises), lacks a field, or is a reading; a reading's
\* process_reading may raise (a value that is no number, a failing classifier).
websocket_receive ==
    /\ started
    /\ ws = "open"
    /\ MayRead
    /\ \/ /\ response' = WebSocketError("Invalid JSON format")
          /\ UNCHANGED <<detector, history>>
       \/ /\ response' = WebSocketError("Missing required sensor data fields")
          /\ UNCHANGED <<detector, history>>
       \/ /\ response' = WebSocketError("Processing error")
          /\ UNCHANGED <<detector, history>>
       \/ \E pred \in Predictions :
             LET r == process_reading(detector, pred) IN
             /\ detector' = r.detector
             /\ response' = WebSocketResponse(r.result)
             /\ history' = Append(history,
                              Observed(detector, pred, response', detector'))
    /\ UNCHANGED <<started, counter, model_info, ws, last_reset, cal_vars, conn>>

\* websocket_endpoint, lines 288-289: the client goes away.
websocket_disconnect ==
    /\ started
    /\ ws = "open"
    /\ ws' = "closed"
    /\ response' = [op |-> "ws_disconnect", status |-> 0]
    /\ UNCHANGED <<started, detector, counter, model_info, history, last_reset,
                   cal_vars, conn>>

Next ==
    \/ startup_event
    \/ detect_step
    \/ get_step_count
    \/ reset_step_count
    \/ get_session_summary
    \/ save_session
    \/ get_model_info
    \/ websocket_accept
    \/ websocket_receive
    \/ websocket_disconnect

Spec == Init /\ [][Next]_vars

----------------------------------------------------------------------------
(* api.py, websocket_endpoint from await to await: the handler runs without *)
(* giving up the event loop from the return of receive_text to the call of *)
(* send_text, and other requests are served while it waits in either.      *)

\* Messages received on one connection.
MaxMessages == 3

\* What a client may send: text that is no JSON, JSON that is no object (a
\* number), an object lacking a sensor field, an object with the six fields
\* whose values are no numbers, and a reading.
Messages == {"invalid_json", "not_object", "missing_fields", "malformed_values",
             "reading"}

\* The messages that are no well-formed reading.
Malformed == Messages \ {"reading"}

\* What detector.process_reading does once called: it raises, or it classifies
\* and processes.
Outcomes ==
    {[raises |-> TRUE, pred |-> None]}
        \cup {[raises |-> FALSE, pred |-> p] : p \in Predictions}

\* Mutant of handle_message: an object lacking a field is skipped without a
\* reply.
handle_message_silent_continue(d, msg, outcome) ==
    IF msg = "invalid_json"
    THEN [detector |-> d, invoked |-> FALSE, processed |-> FALSE,
          reply |-> WebSocketError("Invalid JSON format")]
    ELSE IF msg = "not_object"
    THEN [detector |-> d, invoked |-> FALSE, processed |-> FALSE,
          reply |-> WebSocketError("Processing error")]
    ELSE IF msg = "missing_fields"
    THEN [detector |-> d, invoked |-> FALSE, processed |-> FALSE,
          reply |-> None]
    ELSE IF outcome.raises
    THEN [detector |-> d, invoked |-> TRUE, processed |-> FALSE,
          reply |-> WebSocketError("Processing error")]
    ELSE LET r == process_reading(d, outcome.pred) IN
         [detector |-> r.detector, invoked |-> TRUE, processed |-> TRUE,
          reply |-> WebSocketResponse(r.result)]

\* Mutant of handle_message: the phase and the count of a processed reading
\* are stored, its log entry is not.
handle_message_torn(d, msg, outcome) ==
    IF msg = "invalid_json"
    THEN [detector |-> d, invoked |-> FALSE, processed |-> FALSE,
          reply |-> WebSocketError("Invalid JSON format")]
    ELSE IF msg = "not_object"
    THEN [detector |-> d, invoked |-> FALSE, processed |-> FALSE,
          reply |-> WebSocketError("Processing error")]
    ELSE IF msg = "missing_fields"
    THEN [detector |-> d, invoked |-> FALSE, processed |-> FALSE,
          reply |-> WebSocketError("Missing required sensor data fields")]
    ELSE IF outcome.raises
    THEN [detector |-> d, invoked |-> TRUE, processed |-> FALSE,
          reply |-> WebSocketError("Processing error")]
    ELSE LET r == process_reading(d, outcome.pred) IN
         [detector |-> [r.detector EXCEPT !.session = d.session],
          invoked |-> TRUE, processed |-> TRUE,
          reply |-> WebSocketResponse(r.result)]

\* Lines 217-286, the handling of one message: json.loads raises for text
\* that is no JSON; the field test raises for a number and fails for an
\* object lacking a field; every other object, whatever its values are,
\* reaches detector.process_reading.
handle_message(d, msg, outcome) ==
    IF msg = "invalid_json"
    THEN [detector |-> d, invoked |-> FALSE, processed |-> FALSE,
          reply |-> WebSocketError("Invalid JSON format")]
    ELSE IF msg = "not_object"
    THEN [detector |-> d, invoked |-> FALSE, processed |-> FALSE,
          reply |-> WebSocketError("Processing error")]
    ELSE IF msg = "missing_fields"
    THEN [detector |-> d, invoked |-> FALSE, processed |-> FALSE,
          reply |-> WebSocketError("Missing required sensor data fields")]
    ELSE IF outcome.raises
    THEN [detector |-> d, invoked |-> TRUE, processed |-> FALSE,
          reply |-> WebSocketError("Processing error")]
    ELSE LET r == process_reading(d, outcome.pred) IN
         [detector |-> r.detector, invoked |-> TRUE, processed |-> TRUE,
          reply |-> WebSocketResponse(r.result)]

\* The observer's private reference after the client's reading pred.
OwnAfter(own, d, pred) ==
    LET r == process_reading([d EXCEPT !.in_step = own.in_step,
                                       !.step_count = own.step_count], pred)
    IN  [in_step    |-> r.detector.in_step,
         step_count |-> r.detector.step_count,
         step_start |-> r.result.step_start,
         step_end   |-> r.result.step_end]

\* Lines 203-210: accept; without a detector, an error message and close.
accept ==
    /\ started
    /\ conn.pc = "closed"
    /\ conn' = IF detector = None
               THEN [NoConnection EXCEPT
                        !.reply = [op |-> "ws_accept", status |-> 0,
                                   ws_status |-> "error",
                                   error |-> "Model not loaded"]]
               ELSE [NoConnection EXCEPT !.pc = "receive_text"]
    /\ UNCHANGED <<started, detector, counter, model_info, ws, response, history,
                   last_reset, cal_vars>>

\* Line 215 to the next await: a message arrives and is handled up to the
\* send_text that answers it.
receive_text ==
    /\ started
    /\ conn.pc = "receive_text"
    /\ conn.received < MaxMessages
    /\ MayRead
    /\ \E msg \in Messages, outcome \in Outcomes :
          LET h == handle_message(detector, msg, outcome) IN
          /\ detector' = h.detector
          /\ history' = IF h.processed
                        THEN Append(history,
                                Observed(detector, outcome.pred, h.reply, h.detector))
                        ELSE history
          /\ conn' = [conn EXCEPT
                        !.pc = IF h.reply = None THEN "receive_text" ELSE "send_text",
                        !.received = @ + 1,
                        !.msg = msg,
                        !.invoked = h.invoked,
                        !.reply = h.reply,
                        !.own = IF h.processed
                                THEN OwnAfter(@, detector, outcome.pred) ELSE @]
    /\ UNCHANGED <<started, counter, model_info, ws, response, last_reset, cal_vars>>

\* send_text returns: the reply is with the client and the loop is back at
\* receive_text (line 215), after an error reply as after a result.
send_text ==
    /\ started
    /\ conn.pc = "send_text"
    /\ conn' = [conn EXCEPT
                  !.pc = "receive_text",
                  !.sent = @ + 1,
                  !.rejected = @ \/ conn.reply.ws_status = "error",
                  !.msg = "none",
                  !.invoked = FALSE,
                  !.reply = None]
    /\ UNCHANGED <<started, detector, counter, model_info, ws, response, history,
                   last_reset, cal_vars>>

\* Lines 288-289: the client goes away while the handler waits.
disconnect ==
    /\ started
    /\ conn.pc # "closed"
    /\ conn' = NoConnection
    /\ UNCHANGED <<started, detector, counter, model_info, ws, response, history,
                   last_reset, cal_vars>>

StreamNext ==
    \/ startup_event
    \/ detect_step
    \/ accept
    \/ receive_text
    \/ send_text
    \/ disconnect

StreamSpec == Init /\ [][StreamNext]_vars

----------------------------------------------------------------------------
(* model_utils.py: optimize_thresholds.                                    *)
(* F1 scores are exact fractions [num, den] in lowest terms; the program's *)
(* floats are their roundings.                                             *)

\* Samples in the validation set handed to the calibrator.
MaxSamples == 2

\* Rows of the predictions matrix, <<p_none, p_start, p_end>> in hundredths.
\* predictions[:, 1] is the second entry, predictions[:, 2] the third.
CalPredictions ==
    { <<90, 5, 5>>, <<10, 85, 5>>, <<10, 5, 85>>, <<40, 30, 30>> }

\* The built-in grid of lines 348-349, in hundredths.
default_threshold_range == <<1, 2, 3, 4, 5, 10, 15, 20, 25, 30>>

\* threshold_range as callers give it: left out (None), or a list: empty,
\* ascending, descending, a single candidate.
ThresholdRanges ==
    { None,
      [list |-> << >>],
      [list |-> <<10, 50>>],
      [list |-> <<50, 10>>],
      [list |-> <<30>>] }

RECURSIVE GCD(_, _)
GCD(a, b) == IF b = 0 THEN a ELSE GCD(b, a % b)

\* The fraction n/d (d > 0, n >= 0) in lowest terms.
Frac(n, d) == LET g == GCD(n, d) IN [num |-> n \div g, den |-> d \div g]
Zero == Frac(0, 1)
FracAdd(a, b) == Frac(a.num * b.den + b.num * a.den, a.den * b.den)
FracMul(a, b) == Frac(a.num * b.num, a.den * b.den)
FracDiv(a, b) == Frac(a.num * b.den, a.den * b.num)
FracGt(a, b) == a.num * b.den > b.num * a.den
FracGe(a, b) == a.num * b.den >= b.num * a.den

\* np.sum of the elementwise and of two boolean vectors.
CountBoth(a, b) == Cardinality({i \in DOMAIN a : a[i] /\ b[i]})
Not(a) == [i \in DOMAIN a |-> ~a[i]]

\* Lines 373-383 (and 385-391): precision, recall and F1 from the counts,
\* each 0 when its denominator is 0.
f1_score(tp, fp, fn) ==
    LET precision == IF tp + fp > 0 THEN Frac(tp, tp + fp) ELSE Zero
        recall    == IF tp + fn > 0 THEN Frac(tp, tp + fn) ELSE Zero
    IN  IF FracGt(FracAdd(precision, recall), Zero)
        THEN FracDiv(FracMul(Frac(2, 1), FracMul(precision, recall)),
                     FracAdd(precision, recall))
        ELSE Zero

\* Mutant of threshold_result: both channels read the start column.
threshold_result_one_column(predictions, true_labels, thresh) ==
    LET predicted_starts == [i \in DOMAIN predictions |-> predictions[i][2] > thresh]
        predicted_ends   == [i \in DOMAIN predictions |-> predictions[i][2] > thresh]
        true_starts      == [i \in DOMAIN true_labels |-> true_labels[i] = 1]
        true_ends        == [i \in DOMAIN true_labels |-> true_labels[i] = 2]
        start_f1 == f1_score(CountBoth(predicted_starts, true_starts),
                             CountBoth(predicted_starts, Not(true_starts)),
                             CountBoth(Not(predicted_starts), true_starts))
        end_f1   == f1_score(CountBoth(predicted_ends, true_ends),
                             CountBoth(predicted_ends, Not(true_ends)),
                             CountBoth(Not(predicted_ends), true_ends))
    IN  [ threshold  |-> thresh,
          start_f1   |-> start_f1,
          end_f1     |-> end_f1,
          overall_f1 |-> FracDiv(FracAdd(start_f1, end_f1), Frac(2, 1)) ]

\* Lines 356-400: the result recorded for one candidate threshold.
threshold_result(predictions, true_labels, thresh) ==
    LET predicted_starts == [i \in DOMAIN predictions |-> predictions[i][2] > thresh]
        predicted_ends   == [i \in DOMAIN predictions |-> predictions[i][3] > thresh]
        true_starts      == [i \in DOMAIN true_labels |-> true_labels[i] = 1]
        true_ends        == [i \in DOMAIN true_labels |-> true_labels[i] = 2]
        start_tp == CountBoth(predicted_starts, true_starts)
        start_fp == CountBoth(predicted_starts, Not(true_starts))
        start_fn == CountBoth(Not(predicted_starts), true_starts)
        end_tp   == CountBoth(predicted_ends, true_ends)
        end_fp   == CountBoth(predicted_ends, Not(true_ends))
        end_fn   == CountBoth(Not(predicted_ends), true_ends)
        start_f1 == f1_score(start_tp, start_fp, start_fn)
        end_f1   == f1_score(end_tp, end_fp, end_fn)
    IN  [ threshold  |-> thresh,
          start_f1   |-> start_f1,
          end_f1     |-> end_f1,
          overall_f1 |-> FracDiv(FracAdd(start_f1, end_f1), Frac(2, 1)) ]

\* Mutant of effective_threshold_range: an empty list is replaced by the
\* built-in grid as None is.
effective_threshold_range_if_empty(threshold_range) ==
    IF threshold_range = None \/ threshold_range = [list |-> << >>]
    THEN default_threshold_range
    ELSE threshold_range.list

\* Lines 348-349: the built-in grid when threshold_range is None.
effective_threshold_range(threshold_range) ==
    IF threshold_range = None THEN default_threshold_range
    ELSE threshold_range.list

\* Mutant of better: a candidate that ties the best replaces it.
better_or_equal(overall_f1, best_score) == FracGe(overall_f1, best_score)

\* Line 403: overall_f1 > best_score.
better(overall_f1, best_score) == FracGt(overall_f1, best_score)

\* A call of optimize_thresholds with a validation set of MaxSamples samples
\* at most; lines 348-353 have run.
CalInit ==
    /\ \E n \in 0..MaxSamples :
       \E predictions \in [1..n -> CalPredictions] :
       \E true_labels \in [1..n -> 0..2] :
       \E threshold_range \in ThresholdRanges :
          /\ cal_args = [ predictions     |-> predictions,
                          true_labels     |-> true_labels,
                          threshold_range |-> threshold_range ]
          /\ cal = [ pc              |-> "for",
                     threshold_range |-> effective_threshold_range(threshold_range),
                     next            |-> 1,
                     best_threshold  |-> 3,
                     best_score      |-> Zero,
                     results         |-> << >> ]

\* Mutant of for_thresh: the result is appended only when it is the new best.
for_thresh_append_if_better ==
    /\ cal.pc = "for"
    /\ cal.next <= Len(cal.threshold_range)
    /\ LET thresh == cal.threshold_range[cal.next]
           result == threshold_result(cal_args.predictions, cal_args.true_labels, thresh)
           found  == better(result.overall_f1, cal.best_score)
       IN  cal' = [cal EXCEPT !.next = @ + 1,
                              !.results = IF found THEN Append(@, result) ELSE @,
                              !.best_score = IF found THEN result.overall_f1 ELSE @,
                              !.best_threshold = IF found THEN thresh ELSE @]
    /\ UNCHANGED <<cal_args, api_vars>>

\* Lines 355-405: the loop's body for the next candidate.
for_thresh ==
    /\ cal.pc = "for"
    /\ cal.next <= Len(cal.threshold_range)
    /\ LET thresh == cal.threshold_range[cal.next]
           result == threshold_result(cal_args.predictions, cal_args.true_labels, thresh)
           found  == better(result.overall_f1, cal.best_score)
       IN  cal' = [cal EXCEPT !.next = @ + 1,
                              !.results = Append(@, result),
                              !.best_score = IF found THEN result.overall_f1 ELSE @,
                              !.best_threshold = IF found THEN thresh ELSE @]
    /\ UNCHANGED <<cal_args, api_vars>>

\* Mutant of return_best: the threshold returned is the loop's last candidate.
return_best_last_thresh ==
    /\ cal.pc = "for"
    /\ cal.next > Len(cal.threshold_range)
    /\ cal' = [ pc   |-> "returned",
                threshold_range |-> cal.threshold_range,
                best_threshold |-> IF cal.threshold_range = << >>
                                  THEN cal.best_threshold
                                  ELSE cal.threshold_range[Len(cal.threshold_range)],
                best_score     |-> cal.best_score,
                all_results    |-> cal.results ]
    /\ UNCHANGED <<cal_args, api_vars>>

\* Lines 407-411: the dictionary returned when the grid is exhausted.
return_best ==
    /\ cal.pc = "for"
    /\ cal.next > Len(cal.threshold_range)
    /\ cal' = [ pc   |-> "returned",
                threshold_range |-> cal.threshold_range,
                best_threshold |-> cal.best_threshold,
                best_score     |-> cal.best_score,
                all_results    |-> cal.results ]
    /\ UNCHANGED <<cal_args, api_vars>>

CalNext == for_thresh \/ return_best

\* The calibrator runs offline, beside an API that has not started.
CalStart == ApiInit /\ CalInit

CalSpec == CalStart /\ [][CalNext]_vars

----------------------------------------------------------------------------
(* Properties of the detector behind the API. *)

Readings == 1..Len(history)

\* A reading qualifies as a start (an end) when its probability is above the
\* detector's threshold.
StartQualifies(i) == history[i].pred.start_prob > detector.start_threshold
EndQualifies(i) == history[i].pred.end_prob > detector.end_threshold

\* The completed-step signals since the last reset: the readings that took the
\* phase from IN_STEP to IDLE.
CompletedSteps ==
    Cardinality({i \in Readings : history[i].in_step_before /\ ~history[i].in_step_after})

\* C1: after any sequence of readings and resets, step_count (the detector's,
\* and the one the last reading's reply carried) is the number of IN_STEP to
\* IDLE transitions since the last reset, whatever else was recorded.
C1_StepCountIsCompletedSteps ==
    detector # None =>
        /\ detector.step_count = CompletedSteps
        /\ Len(detector.session) = Len(history)
        /\ history # << >> => history[Len(history)].step_count = CompletedSteps

\* A step completed after a reset that found a counted step, with readings
\* that completed nothing recorded as well.
C1_Witness ==
    /\ last_reset # None
    /\ last_reset.step_count = 1
    /\ detector # None
    /\ detector.step_count = 1
    /\ Len(history) = 3
    /\ response.op = "detect_step"

\* C2: no reading's event has step_start and step_end both true, and a reading
\* makes the one transition its phase allows: a start only from IDLE, an end
\* only from IN_STEP, and no flag means no change of phase.
C2_StartEndExclusive ==
    \A i \in Readings :
        /\ ~(history[i].step_start /\ history[i].step_end)
        /\ history[i].step_start =>
              ~history[i].in_step_before /\ history[i].in_step_after
        /\ history[i].step_end =>
              history[i].in_step_before /\ ~history[i].in_step_after
        /\ (~history[i].step_start /\ ~history[i].step_end) =>
              history[i].in_step_after = history[i].in_step_before

\* Both probabilities above their thresholds in one reading, met in IDLE and
\* met again in IN_STEP.
C2_Witness ==
    /\ detector # None
    /\ \E i, j \in Readings :
          /\ StartQualifies(i) /\ EndQualifies(i) /\ ~history[i].in_step_before
          /\ StartQualifies(j) /\ EndQualifies(j) /\ history[j].in_step_before
    /\ response.op = "detect_step"

\* C3: a reading met IN_STEP never yields step_start, however high its start
\* probability; so between resets the step_start and step_end events
\* alternate, a step_start first.
C3_NoDoubleStart ==
    /\ \A i \in Readings : history[i].in_step_before => ~history[i].step_start
    /\ \A i, j \in Readings :
          (i < j /\ history[i].step_start /\ history[j].step_start)
              => \E k \in Readings : i < k /\ k < j /\ history[k].step_end
    /\ \A j \in Readings :
          history[j].step_end =>
              \E i \in Readings :
                  /\ i < j
                  /\ history[i].step_start
                  /\ \A k \in Readings : (i < k /\ k < j) => ~history[k].step_end

\* A start followed by two more start-qualifying readings, none of them an
\* end: one step_start, no second.
C3_Witness ==
    /\ detector # None
    /\ Len(history) = 3
    /\ history[1].step_start
    /\ StartQualifies(2) /\ ~history[2].step_start /\ ~history[2].step_end
    /\ StartQualifies(3) /\ ~history[3].step_start /\ ~history[3].step_end
    /\ detector.in_step

\* C4: thresholds are strict: in IDLE a start probability equal to
\* start_threshold gives no step_start and leaves IDLE; in IN_STEP an end
\* probability equal to end_threshold gives no step_end, leaves IN_STEP and
\* the count as it was.
C4_ThresholdsStrict ==
    detector # None =>
      \A i \in Readings :
        /\ (~history[i].in_step_before
              /\ history[i].pred.start_prob = detector.start_threshold)
             => (~history[i].step_start /\ ~history[i].in_step_after)
        /\ (history[i].in_step_before
              /\ history[i].pred.end_prob = detector.end_threshold)
             => /\ ~history[i].step_end
                /\ history[i].in_step_after
                /\ history[i].count_after = history[i].count_before
                /\ history[i].step_count = history[i].count_before

\* A probability on the threshold met in IDLE, and one met in IN_STEP.
C4_Witness ==
    /\ detector # None
    /\ \E i, j \in Readings :
          /\ ~history[i].in_step_before
          /\ history[i].pred.start_prob = detector.start_threshold
          /\ history[j].in_step_before
          /\ history[j].pred.end_prob = detector.end_threshold

\* The reference machine of the specification, run over a sequence of
\* predictions from phase in_step and count n: the events (step_start,
\* step_end, step_count) it emits.
RECURSIVE Reference(_, _, _, _, _)
Reference(preds, in_step, n, start_threshold, end_threshold) ==
    IF preds = << >> THEN << >>
    ELSE LET p == Head(preds) IN
         IF ~in_step
         THEN IF p.start_prob > start_threshold
              THEN <<[step_start |-> TRUE, step_end |-> FALSE, step_count |-> n]>>
                   \o Reference(Tail(preds), TRUE, n, start_threshold, end_threshold)
              ELSE <<[step_start |-> FALSE, step_end |-> FALSE, step_count |-> n]>>
                   \o Reference(Tail(preds), FALSE, n, start_threshold, end_threshold)
         ELSE IF p.end_prob > end_threshold
              THEN <<[step_start |-> FALSE, step_end |-> TRUE, step_count |-> n + 1]>>
                   \o Reference(Tail(preds), FALSE, n + 1, start_threshold, end_threshold)
              ELSE <<[step_start |-> FALSE, step_end |-> FALSE, step_count |-> n]>>
                   \o Reference(Tail(preds), TRUE, n, start_threshold, end_threshold)

\* The predictions fed since the last reset, and the events replied to them.
Fed == [i \in Readings |-> history[i].pred]
Emitted ==
    [i \in Readings |-> [step_start |-> history[i].step_start,
                         step_end   |-> history[i].step_end,
                         step_count |-> history[i].step_count]]

\* The end-to-end scenario of the specification.
ScenarioFed ==
    << [start_prob |-> 2,  end_prob |-> 3],
       [start_prob |-> 90, end_prob |-> 0],
       [start_prob |-> 0,  end_prob |-> 90] >>
ScenarioEmitted ==
    << [step_start |-> FALSE, step_end |-> FALSE, step_count |-> 0],
       [step_start |-> TRUE,  step_end |-> FALSE, step_count |-> 0],
       [step_start |-> FALSE, step_end |-> TRUE,  step_count |-> 1] >>

\* C5: the events replied to the predictions fed to a freshly reset (or
\* fresh) detector are those of the reference machine started IDLE with
\* count 0; with thresholds 0.3 / 0.3 the scenario's three predictions give
\* (F,F,0), (T,F,0), (F,T,1).
C5_MatchesReference ==
    detector # None =>
        /\ Emitted = Reference(Fed, FALSE, 0,
                               detector.start_threshold, detector.end_threshold)
        /\ (/\ Fed = ScenarioFed
            /\ detector.start_threshold = 30
            /\ detector.end_threshold = 30) => Emitted = ScenarioEmitted

\* The scenario has been fed, after a reset.
C5_Witness ==
    /\ detector # None
    /\ last_reset # None
    /\ Fed = ScenarioFed
    /\ detector.start_threshold = 30
    /\ detector.end_threshold = 30

\* The step_count of the detector and of the replies never falls between
\* resets.
CountNonDecreasing ==
    /\ \A i \in Readings :
          /\ history[i].count_before <= history[i].count_after
          /\ history[i].count_before <= history[i].step_count
    /\ \A i, j \in Readings :
          i < j => /\ history[i].step_count <= history[j].step_count
                   /\ history[i].count_after <= history[j].count_before
    /\ (detector # None /\ history # << >>) =>
          history[Len(history)].count_after <= detector.step_count

\* A step in which the detector's step_count falls is a performed reset, and
\* leaves it 0.
DecreaseOnlyByReset ==
    (detector # None /\ detector' # None
        /\ detector'.step_count < detector.step_count)
    => /\ response'.op = "reset_count"
       /\ response'.status = 200
       /\ detector'.step_count = 0

\* C6: without a reset in between, step_count does not decrease from one
\* recorded reading to the next (the detector's, and the one each reply
\* carries); only reset() lowers it, and then to 0.
C6_MonotonicCount == [] CountNonDecreasing /\ [][DecreaseOnlyByReset]_vars

\* A reset has lowered a count of 1 to 0, and a step was counted again.
C6_Witness ==
    /\ last_reset # None
    /\ last_reset.step_count = 1
    /\ Len(history) = 2
    /\ history[2].count_before = 0
    /\ history[2].step_count = 1

\* What reset() leaves: no steps, no last detection, an empty log, phase IDLE.
IsReset ==
    /\ counter.step_count = 0
    /\ counter.last_detection = None
    /\ detector # None =>
          /\ detector.step_count = 0
          /\ detector.last_detection = None
          /\ detector.session = << >>
          /\ ~detector.in_step

\* C7: from any state, a performed reset, the first of a run of resets and
\* every further one alike, leaves step_count 0, last_detection null, the
\* session log empty and the phase IDLE: the counter's reset reaches the
\* state machine.
C7_ResetIdempotent ==
    (response.op = "reset_count" /\ response.status = 200) =>
        /\ counter # None
        /\ IsReset
        /\ history = << >>

\* Two resets in a row, the first met IN_STEP with a step counted.
C7_Witness ==
    /\ response.op = "reset_count"
    /\ response.status = 200
    /\ last_reset # None
    /\ last_reset.in_step
    /\ last_reset.step_count = 1
    /\ last_reset.twice

----------------------------------------------------------------------------
(* Properties of the calibrator. *)

\* The results recorded so far, during the loop and in the returned dictionary.
Recorded == IF cal.pc = "returned" THEN cal.all_results
            ELSE IF cal.pc = "for" THEN cal.results ELSE << >>

\* The largest overall_f1 recorded so far (0 when nothing is recorded).
MaxOverall ==
    IF Recorded = << >> THEN Zero
    ELSE LET i == CHOOSE i \in DOMAIN Recorded :
                    \A j \in DOMAIN Recorded :
                        FracGe(Recorded[i].overall_f1, Recorded[j].overall_f1)
         IN  Recorded[i].overall_f1

\* The first recorded candidate whose overall_f1 is the largest.
FirstMaximal ==
    LET i == CHOOSE i \in DOMAIN Recorded :
                /\ Recorded[i].overall_f1 = MaxOverall
                /\ \A j \in DOMAIN Recorded :
                      Recorded[j].overall_f1 = MaxOverall => i <= j
    IN  Recorded[i].threshold

\* C8 as stated: whatever the scores, the returned best_threshold is the
\* first candidate of the grid whose overall_f1 is maximal.
C8_Original ==
    (cal.pc = "returned" /\ Recorded # << >>) => cal.best_threshold = FirstMaximal

\* C8, amended: when some candidate scores above 0, best_threshold is the
\* first candidate, in grid order, whose overall_f1 is maximal, and
\* best_score is that maximum (ties leave the earlier candidate: grid
\* [0.1, 0.5] with both scoring 1.0 gives 0.1); when none scores above 0 the
\* initial 0.03 and 0 stand. This holds after every turn of the loop and of
\* what is returned.
C8_FirstMaximalWins ==
    cal.pc \in {"for", "returned"} =>
        /\ cal.best_score = MaxOverall
        /\ FracGt(MaxOverall, Zero) => cal.best_threshold = FirstMaximal
        /\ ~FracGt(MaxOverall, Zero) => cal.best_threshold = 3
        /\ (/\ cal.pc = "returned"
            /\ cal_args.threshold_range = [list |-> <<10, 50>>]
            /\ cal.all_results[1].overall_f1 = Frac(1, 1)
            /\ cal.all_results[2].overall_f1 = Frac(1, 1)) => cal.best_threshold = 10

\* Grid [0.1, 0.5], both candidates scoring 1.0, returned 0.1.
C8_Witness ==
    /\ cal.pc = "returned"
    /\ cal_args.threshold_range = [list |-> <<10, 50>>]
    /\ cal.all_results[1].overall_f1 = Frac(1, 1)
    /\ cal.all_results[2].overall_f1 = Frac(1, 1)
    /\ cal.best_threshold = 10

\* The thresholds of the returned results, in order.
EvaluatedThresholds == [i \in DOMAIN cal.all_results |-> cal.all_results[i].threshold]

\* C9 as stated: given an empty grid, the calibrator evaluates the built-in
\* grid, one result per default candidate.
C9_Original ==
    (cal.pc = "returned" /\ cal_args.threshold_range = [list |-> << >>]) =>
        EvaluatedThresholds = default_threshold_range

\* C9, amended: given no grid (None), the calibrator evaluates the built-in
\* grid {0.01, 0.02, 0.03, 0.04, 0.05, 0.10, 0.15, 0.20, 0.25, 0.30}, one
\* result per default candidate; given an empty list it evaluates nothing
\* and returns no results, best_threshold 0.03 and best_score 0; a given
\* list is evaluated as it is.
C9_DefaultGridWhenNone ==
    cal.pc = "returned" =>
        /\ cal_args.threshold_range = None =>
              /\ EvaluatedThresholds = <<1, 2, 3, 4, 5, 10, 15, 20, 25, 30>>
              /\ Len(cal.all_results) = 10
        /\ cal_args.threshold_range = [list |-> << >>] =>
              /\ cal.all_results = << >>
              /\ cal.best_threshold = 3
              /\ cal.best_score = Zero
        /\ cal_args.threshold_range # None =>
              EvaluatedThresholds = cal_args.threshold_range.list

\* A call without a grid has returned its ten results for a set of samples.
C9_Witness ==
    /\ cal.pc = "returned"
    /\ cal_args.threshold_range = None
    /\ Len(cal.all_results) = 10
    /\ Len(cal_args.predictions) = 2

\* True positives, false positives and false negatives of column col of the
\* predictions, thresholded at t, against label.
Samples == DOMAIN cal_args.predictions
TruePositives(col, label, t) ==
    Cardinality({i \in Samples : cal_args.predictions[i][col] > t
                                  /\ cal_args.true_labels[i] = label})
FalsePositives(col, label, t) ==
    Cardinality({i \in Samples : cal_args.predictions[i][col] > t
                                  /\ cal_args.true_labels[i] # label})
FalseNegatives(col, label, t) ==
    Cardinality({i \in Samples : ~(cal_args.predictions[i][col] > t)
                                  /\ cal_args.true_labels[i] = label})

\* F1 of a thresholded column against a label: 2 TP / (2 TP + FP + FN), and
\* 0 when there is nothing to divide by.
F1(col, label, t) ==
    LET tp == TruePositives(col, label, t)
        fp == FalsePositives(col, label, t)
        fn == FalseNegatives(col, label, t)
    IN  IF tp = 0 THEN Zero ELSE Frac(2 * tp, 2 * tp + fp + fn)

\* C10: every recorded result of a candidate t holds as start_f1 the F1 of
\* (p_start > t) against (label = 1), as end_f1 the F1 of (p_end > t)
\* against (label = 2) with the same t, and as overall_f1 their mean; each
\* is a fraction in [0, 1], and is 0 where a precision, recall or F1
\* denominator is 0.
C10_F1PerThreshold ==
    \A i \in DOMAIN Recorded :
        LET r == Recorded[i]
            t == r.threshold
        IN  /\ r.start_f1 = F1(2, 1, t)
            /\ r.end_f1 = F1(3, 2, t)
            /\ FracAdd(r.overall_f1, r.overall_f1) = FracAdd(r.start_f1, r.end_f1)
            /\ \A f \in {r.start_f1, r.end_f1, r.overall_f1} :
                  f.den > 0 /\ f.num >= 0 /\ f.num <= f.den
            /\ (TruePositives(2, 1, t) + FalsePositives(2, 1, t) = 0
                  \/ TruePositives(2, 1, t) + FalseNegatives(2, 1, t) = 0)
                 => r.start_f1 = Zero
            /\ (TruePositives(3, 2, t) + FalsePositives(3, 2, t) = 0
                  \/ TruePositives(3, 2, t) + FalseNegatives(3, 2, t) = 0)
                 => r.end_f1 = Zero

\* A returned report with a candidate whose start and end scores differ
\* (1 and 0, mean 1/2) and a candidate at which nothing is predicted a start
\* though a start is labelled (a precision denominator of 0).
C10_Witness ==
    /\ cal.pc = "returned"
    /\ \E i \in DOMAIN cal.all_results :
          /\ cal.all_results[i].start_f1 = Frac(1, 1)
          /\ cal.all_results[i].end_f1 = Zero
          /\ cal.all_results[i].overall_f1 = Frac(1, 2)
    /\ \E j \in DOMAIN cal.all_results :
          LET t == cal.all_results[j].threshold IN
          /\ TruePositives(2, 1, t) + FalsePositives(2, 1, t) = 0
          /\ FalseNegatives(2, 1, t) > 0

\* The keys of the dictionary optimize_thresholds returns.
ReportKeys == DOMAIN cal \ {"pc", "threshold_range"}

\* The grid a call evaluates: the one given, or the built-in one.
GridEvaluated == effective_threshold_range(cal_args.threshold_range)

\* C11 as stated: the report holds best_threshold, best_score and a list
\* named results with one record per grid candidate, in ascending order of
\* threshold, whatever grid the caller gives.
C11_Original ==
    cal.pc = "returned" =>
        /\ ReportKeys = {"best_threshold", "best_score", "results"}
        /\ Len(cal.results) = Len(GridEvaluated)
        /\ \A i, j \in DOMAIN cal.results :
              i < j => cal.results[i].threshold < cal.results[j].threshold

\* C11, amended: the report holds best_threshold, best_score and a list
\* named all_results with exactly one (threshold, start_f1, end_f1,
\* overall_f1) record per grid candidate, in the order of the grid as given
\* (ascending for the built-in grid), for every grid the caller supplies.
C11_ReportShape ==
    cal.pc = "returned" =>
        /\ ReportKeys = {"best_threshold", "best_score", "all_results"}
        /\ Len(cal.all_results) = Len(GridEvaluated)
        /\ \A i \in DOMAIN cal.all_results :
              /\ DOMAIN cal.all_results[i]
                    = {"threshold", "start_f1", "end_f1", "overall_f1"}
              /\ cal.all_results[i].threshold = GridEvaluated[i]
        /\ cal_args.threshold_range = None =>
              \A i, j \in DOMAIN cal.all_results :
                  i < j => cal.all_results[i].threshold < cal.all_results[j].threshold

\* A report for the descending grid [0.5, 0.1] whose second candidate is not
\* a new best.
C11_Witness ==
    /\ cal.pc = "returned"
    /\ cal_args.threshold_range = [list |-> <<50, 10>>]
    /\ Len(cal.all_results) = 2
    /\ cal.all_results[1].threshold = 50
    /\ cal.all_results[2].threshold = 10
    /\ cal.best_threshold = 50
    /\ FracGt(cal.best_score, Zero)

----------------------------------------------------------------------------
(* Sessions, streaming and the transport boundary.                         *)

\* The reply to a well-formed reading that was processed waits in send_text.
ReplyIsResult ==
    /\ conn.pc = "send_text"
    /\ conn.msg = "reading"
    /\ conn.reply.ws_status = "success"

\* C12: readings delivered by one client never change the phase or the
\* step_count another client's session observes: every result the WebSocket
\* client receives carries the flags and the count a state machine fed with
\* that connection's readings alone gives, whatever the REST caller posts.
C12_SessionsIsolated ==
    ReplyIsResult =>
        /\ conn.reply.step_count = conn.own.step_count
        /\ conn.reply.step_start = conn.own.step_start
        /\ conn.reply.step_end = conn.own.step_end

\* The phase the session log tells: mid-step when its last event is a start.
PhaseOfLog(session) ==
    \E i \in DOMAIN session :
        /\ session[i].step_start
        /\ \A j \in DOMAIN session : j > i => ~session[j].step_end

\* The steps the session log holds: its step_end events.
StepsOfLog(session) == Cardinality({i \in DOMAIN session : session[i].step_end})

\* Each processed reading met the detector as the reading before it left it.
Chained ==
    \A i \in DOMAIN history :
        /\ history[i].in_step_before
              = (IF i = 1 THEN FALSE ELSE history[i - 1].in_step_after)
        /\ history[i].count_before
              = (IF i = 1 THEN 0 ELSE history[i - 1].count_after)

\* C13: with a REST caller and a streaming caller feeding the shared
\* detector, every process/record call completes (phase, count, log entry)
\* before the next reading is taken: each reading meets the state its
\* predecessor left, the log holds one entry per reading, and the phase and
\* the count are those the log tells, so that no step is lost or doubled.
C13_ReadingsSerialized ==
    detector # None =>
        /\ Chained
        /\ Len(detector.session) = Len(history)
        /\ \A i \in DOMAIN history :
              /\ detector.session[i].step_start = history[i].step_start
              /\ detector.session[i].step_end = history[i].step_end
              /\ detector.session[i].step_count = history[i].count_after
        /\ detector.in_step = PhaseOfLog(detector.session)
        /\ detector.step_count = StepsOfLog(detector.session)
        /\ history # << >> =>
              /\ detector.in_step = history[Len(history)].in_step_after
              /\ detector.step_count = history[Len(history)].count_after

\* A REST reading is served while the reply to a streamed reading waits in
\* send_text: the stream started a step, the REST caller ended it.
C13_Witness ==
    /\ ReplyIsResult
    /\ conn.reply.step_start
    /\ response.op = "detect_step"
    /\ response.status = 200
    /\ response.step_end
    /\ Len(history) = 2
    /\ detector.step_count = 1
    /\ ~detector.in_step

----------------------------------------------------------------------------
(* Availability, persistence and reads.                                    *)

\* The requests that need the core.
CoreOps == {"detect_step", "step_count", "reset_count", "session_summary",
            "save_session", "ws_accept"}

\* A service-unavailable answer: HTTP 503, or the WebSocket's error message
\* followed by close.
Unavailable(r) ==
    IF r.op = "ws_accept" THEN r.ws_status = "error" ELSE r.status = 503

\* C14: while the detector is not loaded, every request that needs the core
\* (detect_step, step_count, reset_count, session_summary, save_session, the
\* WebSocket stream) is answered service-unavailable (503, or an error
\* message and close on the WebSocket), and neither the detector nor the
\* counter is touched. A detect_step body that is no SensorReading never
\* reaches the handler (422) and is no such request.
NotLoadedStep ==
    (/\ started
     /\ detector = None
     /\ response'.op \in CoreOps
     /\ response'.status # 422) =>
        /\ Unavailable(response')
        /\ ws' = "closed"
        /\ detector' = None
        /\ counter' = counter
        /\ counter = None

C14_UnavailableWhenNotLoaded == [][NotLoadedStep]_vars

\* A save_session refused because no detector is loaded.
C14_Witness ==
    /\ started
    /\ detector = None
    /\ counter = None
    /\ response.op = "save_session"
    /\ response.status = 503

----------------------------------------------------------------------------
(* The transport boundary.                                                 *)

\* A message that is no well-formed reading has just been handled.
MalformedHandled ==
    /\ conn'.received = conn.received + 1
    /\ conn'.msg \in Malformed

\* A REST body that is no SensorReading has just been answered.
MalformedPosted ==
    /\ response'.op = "detect_step"
    /\ response'.status = 422

\* C15: a reading that is malformed or lacks a sensor field is rejected
\* before it reaches the core: process_reading is not called for it, it is
\* answered with an error, and the detector's phase, count and log are as
\* they were.
RejectedAtBoundary ==
    /\ MalformedHandled =>
          /\ ~conn'.invoked
          /\ conn'.reply.ws_status = "error"
          /\ detector' = detector
    /\ MalformedPosted => detector' = detector

C15_MalformedRejected == [][RejectedAtBoundary]_vars

\* Replies never run ahead of or fall behind the messages: none is owed while
\* the loop waits in receive_text, exactly one while it waits in send_text.
RepliesMatchMessages ==
    /\ conn.pc = "receive_text" => conn.sent = conn.received
    /\ conn.pc = "send_text" =>
          /\ conn.received = conn.sent + 1
          /\ conn.reply # None
          /\ conn.reply.ws_status \in {"success", "error"}
    /\ conn.pc = "closed" => conn.received = 0 /\ conn.sent = 0

\* A message is received only when every earlier one has its reply, and a
\* reply sent, an error record as well as a result, leaves the connection
\* open at receive_text.
ReplyBeforeNextMessage ==
    /\ conn'.received = conn.received + 1 =>
          /\ conn.pc = "receive_text"
          /\ conn.sent = conn.received
    /\ conn'.sent = conn.sent + 1 =>
          /\ conn.pc = "send_text"
          /\ conn'.pc = "receive_text"
          /\ conn'.sent = conn'.received

----------------------------------------------------------------------------
(* Persistence, thresholds and reads.                                      *)

\* A save_session whose destination cannot be written has just been answered.
UnwritableSave ==
    /\ response'.op = "save_session"
    /\ response'.status # 503
    /\ ~response'.writable

\* C17: a save that fails because the destination is unwritable is returned
\* to the caller as an error (500), nothing is written, and the session
\* (count, phase, last detection, log) and the counter are exactly what they
\* were, so that later readings and counts are as if no save was attempted.
SaveFailureLeavesSession ==
    UnwritableSave =>
        /\ response'.status = 500
        /\ response'.written = None
        /\ detector' = detector
        /\ counter' = counter
        /\ history' = history

C17_SaveFailureIsLocal == [][SaveFailureLeavesSession]_vars

\* A failed save of a session that holds a completed step and a started one.
C17_Witness ==
    /\ response.op = "save_session"
    /\ response.status = 500
    /\ detector # None
    /\ detector.step_count = 1
    /\ detector.in_step
    /\ Len(detector.session) = 3

\* C18: reset() and process() never change the threshold pair: after any
\* sequence of readings and resets start_threshold and end_threshold are the
\* values the state machine was constructed with, and those are the values
\* GET /model_info reports.
C18_ThresholdsKept ==
    detector # None =>
        /\ detector.start_threshold = StepDetector.start_threshold
        /\ detector.end_threshold = StepDetector.end_threshold
        /\ (response.op = "model_info" /\ "thresholds" \in DOMAIN response) =>
              /\ response.thresholds.start_threshold = StepDetector.start_threshold
              /\ response.thresholds.end_threshold = StepDetector.end_threshold

\* The thresholds are read after a reset performed on a session with a
\* completed step and after two further readings.
C18_Witness ==
    /\ response.op = "model_info"
    /\ "thresholds" \in DOMAIN response
    /\ response.thresholds # None
    /\ last_reset # None
    /\ last_reset.step_count = 1
    /\ Len(history) = 2
    /\ detector.in_step

\* A summary or a count has just been read.
ReadAnswered ==
    /\ response'.op \in {"session_summary", "step_count"}
    /\ response'.status = 200

\* A summary has just been read while the counter is there to be asked.
SummaryAnswered ==
    /\ response'.op = "session_summary"
    /\ response'.status = 200
    /\ counter # None

\* C19: summary() and get_count() are pure reads, leaving the count, the
\* phase, the last detection and the session log as they were, and the
\* summary's total_steps is what get_count() returns and its current_phase is
\* the state machine's phase.
PureReads ==
    /\ ReadAnswered =>
          /\ detector' = detector
          /\ counter' = counter
          /\ history' = history
    /\ SummaryAnswered =>
          /\ response'.summary.total_steps = get_count(counter)
          /\ response'.summary.current_phase
                = (IF detector.in_step THEN "in_step" ELSE "idle")

C19_ReadsArePure == [][PureReads]_vars

\* The count carried by the most recent per-reading result since the last
\* reset, 0 when there is none.
LastResultCount ==
    IF history = << >> THEN 0 ELSE history[Len(history)].step_count

\* C20: after any sequence of detect_step requests, WebSocket readings and
\* resets, the step_count GET /step_count returns is the step_count of the
\* most recent per-reading result (0 when no reading was processed since the
\* last reset).
C20_CountsAgree ==
    (response.op = "step_count" /\ response.status = 200) =>
        response.step_count = LastResultCount

----------------------------------------------------------------------------
(* Startup, and the calibrator's returned best.                            *)

\* C21: after startup, on every path, the detector and the counter are both
\* loaded or both absent; so POST /reset_count never answers 503 while a
\* loaded detector stays un-reset, and never resets one without the other.
C21_LoadedTogether ==
    started =>
        /\ (detector = None) <=> (counter = None)
        /\ (response.op = "reset_count" /\ response.status = 503) => detector = None
        /\ (response.op = "reset_count" /\ response.status = 200) =>
              /\ counter = SimpleStepCounter
              /\ detector # None
              /\ detector.step_count = 0
              /\ ~detector.in_step
              /\ detector.session = << >>

\* Every recorded candidate scores 0.
AllScoreZero == \A i \in DOMAIN Recorded : Recorded[i].overall_f1 = Zero

\* The candidates of the grid evaluated.
GridMembers == {GridEvaluated[i] : i \in DOMAIN GridEvaluated}

\* C22: for every input, the returned best_score is the maximum overall_f1
\* among the recorded results (0 when there are none) and lies in [0, 1];
\* when best_score > 0, best_threshold is a member of the evaluated grid
\* whose recorded overall_f1 is best_score; when every candidate scores 0,
\* best_threshold is the fallback 0.03 and best_score is 0, in the grid or
\* not.
C22_BestIsRecordedMaximum ==
    cal.pc = "returned" =>
        /\ \A i \in DOMAIN Recorded : FracGe(cal.best_score, Recorded[i].overall_f1)
        /\ Recorded = << >> => cal.best_score = Zero
        /\ Recorded # << >> =>
              \E i \in DOMAIN Recorded : Recorded[i].overall_f1 = cal.best_score
        /\ FracGe(cal.best_score, Zero)
        /\ FracGe(Frac(1, 1), cal.best_score)
        /\ FracGt(cal.best_score, Zero) =>
              /\ cal.best_threshold \in GridMembers
              /\ \E i \in DOMAIN Recorded :
                    /\ Recorded[i].threshold = cal.best_threshold
                    /\ Recorded[i].overall_f1 = cal.best_score
        /\ AllScoreZero =>
              /\ cal.best_threshold = 3
              /\ cal.best_score = Zero

\* Two samples, a grid [0.5, 0.1] that does not hold 0.03: the first
\* candidate scores above 0 and is returned although the second, scoring
\* less, is the last evaluated.
C22_Witness ==
    /\ cal.pc = "returned"
    /\ cal_args.threshold_range = [list |-> <<50, 10>>]
    /\ Len(cal_args.predictions) = 2
    /\ FracGt(cal.best_score, Zero)
    /\ cal.best_threshold = 50
    /\ FracGt(cal.all_results[1].overall_f1, cal.all_results[2].overall_f1)

====
